---- MODULE Spec2Model ----
(***************************************************************************)
(* Model of scripts/pixelate_template.py: conversion of an RGBA pixel      *)
(* buffer into a grid of palette indexes (fixed catalog or tonal palette). *)
(*                                                                         *)
(* Python lists are sequences; a Python index i is position i + 1 here.    *)
(* Floating-point expressions are modelled by exact integer arithmetic on  *)
(* numerators and denominators.  For the flattened channels and for the    *)
(* brightest channel of a tone the inputs at which the IEEE-754 double     *)
(* evaluation of the source expression ends, after int(), one below the    *)
(* exact value are tabulated (FlattenDeficit, ToneDeficit).  The two       *)
(* darker channels of a tone are the exact values truncated; the double    *)
(* evaluation can be one less where the exact value is an integer.         *)
(* Text rendering of the snippet (to_swift_array, template_snippet) is not *)
(* modelled: the output holds the header comment and the rows.             *)
(***************************************************************************)
EXTENDS Integers, Sequences, FiniteSets, TLC

VARIABLES pc, args, pixels_rgba, solid_pixels, palette, mapped, rows, used,
          palette_preview, output, error, call, result

vars == <<pc, args, pixels_rgba, solid_pixels, palette, mapped, rows, used,
          palette_preview, output, error, call, result>>

mainVars == <<args, pixels_rgba, solid_pixels, palette, mapped, rows, used,
              palette_preview, output, error>>

(***************************************************************************)
(* Bounds of the model.                                                    *)
(***************************************************************************)
MaxPixels == 3

MaxUnsizedPixels == 1

MaxBuckets == 186

MaxSize == 50

MaxPaletteLen == 3

MaxValues == 4

MaxChunkWidth == 5

(***************************************************************************)
(* Program constants.                                                      *)
(***************************************************************************)
ChannelMax == 255

Transparent == 0 - 1

NoValue == "none"

(* float("inf") of the scan: no distance seen yet. *)
Inf == 0 - 1

Entry(n, r, g, b) == [name |-> n, rgb |-> <<r, g, b>>]

GAME_PALETTE_32 ==
    << Entry("red", 230, 57, 70),
       Entry("orange", 244, 162, 97),
       Entry("yellow", 233, 196, 106),
       Entry("green", 76, 175, 80),
       Entry("teal", 42, 157, 143),
       Entry("brown", 141, 110, 99),
       Entry("charcoal", 47, 47, 47),
       Entry("lightgray", 176, 190, 197),
       Entry("sky", 33, 150, 243),
       Entry("indigo", 63, 81, 181),
       Entry("violet", 156, 39, 176),
       Entry("magenta", 233, 30, 99),
       Entry("coral", 255, 112, 67),
       Entry("gold", 255, 235, 59),
       Entry("seafoam", 0, 150, 136),
       Entry("umber", 121, 85, 72),
       Entry("slate", 96, 125, 139),
       Entry("gray", 158, 158, 158),
       Entry("bluegray", 69, 90, 100),
       Entry("deeporange", 255, 87, 34),
       Entry("lime", 205, 220, 57),
       Entry("leaf", 139, 195, 74),
       Entry("cyan", 0, 188, 212),
       Entry("azure", 3, 169, 244),
       Entry("purple", 103, 58, 183),
       Entry("hotpink", 255, 64, 129),
       Entry("amber", 255, 152, 0),
       Entry("white", 250, 250, 250),
       Entry("storm", 84, 110, 122),
       Entry("petalpink", 255, 167, 192),
       Entry("darkgray", 66, 66, 66),
       Entry("black", 0, 0, 0) >>

(***************************************************************************)
(* Results of a call: a returned value or a raised exception.              *)
(***************************************************************************)
Returned(v) == [ok |-> TRUE, value |-> v]

Raised(e) == [ok |-> FALSE, error |-> e]

(***************************************************************************)
(* palette_for_size: the first `size` catalog entries, ValueError unless   *)
(* size is 16 or 32.                                                       *)
(***************************************************************************)
palette_for_size_any(size) ==
    Returned(SubSeq(GAME_PALETTE_32, 1, size))

palette_for_size(size) ==
    IF size \notin {16, 32}
    THEN Raised("ValueError: palette-size must be 16 or 32")
    ELSE Returned(SubSeq(GAME_PALETTE_32, 1, size))

(***************************************************************************)
(* nearest_palette_index: linear scan, strict "<" keeps the first minimum. *)
(***************************************************************************)
SquaredDistance(rgb, prgb) ==
    LET dr == rgb[1] - prgb[1]
        dg == rgb[2] - prgb[2]
        db == rgb[3] - prgb[3]
    IN  (dr * dr) + (dg * dg) + (db * db)

DistLessOrEqual(dist, best_dist) == best_dist = Inf \/ dist <= best_dist

DistGreater(dist, best_dist) == best_dist = Inf \/ dist > best_dist

(* dist < best_dist, with best_dist possibly float("inf") *)
DistLess(dist, best_dist) == best_dist = Inf \/ dist < best_dist

(* the scan with enumerate(palette, 1): positions counted from 1 *)
RECURSIVE NearestScanOneBased(_, _, _, _, _)
NearestScanOneBased(rgb, pal, idx, best_idx, best_dist) ==
    IF idx >= Len(pal)
    THEN best_idx
    ELSE LET dist == SquaredDistance(rgb, pal[idx + 1].rgb)
         IN  IF best_dist = Inf \/ dist < best_dist
             THEN NearestScanOneBased(rgb, pal, idx + 1, idx + 1, dist)
             ELSE NearestScanOneBased(rgb, pal, idx + 1, best_idx, best_dist)

RECURSIVE NearestScan(_, _, _, _, _)
NearestScan(rgb, pal, idx, best_idx, best_dist) ==
    IF idx >= Len(pal)
    THEN best_idx
    ELSE LET dist == SquaredDistance(rgb, pal[idx + 1].rgb)
         IN  IF DistLess(dist, best_dist)
             THEN NearestScan(rgb, pal, idx + 1, idx, dist)
             ELSE NearestScan(rgb, pal, idx + 1, best_idx, best_dist)

RECURSIVE NearestScanLast(_, _, _, _, _)
NearestScanLast(rgb, pal, idx, best_idx, best_dist) ==
    IF idx >= Len(pal)
    THEN best_idx
    ELSE LET dist == SquaredDistance(rgb, pal[idx + 1].rgb)
         IN  IF DistLessOrEqual(dist, best_dist)
             THEN NearestScanLast(rgb, pal, idx + 1, idx, dist)
             ELSE NearestScanLast(rgb, pal, idx + 1, best_idx, best_dist)

nearest_palette_index_last(rgb, pal) == NearestScanLast(rgb, pal, 0, 0, Inf)

nearest_palette_index(rgb, pal) == NearestScan(rgb, pal, 0, 0, Inf)

(***************************************************************************)
(* chunked: rows of `width` values, a non-empty remainder as a last row.   *)
(***************************************************************************)
RECURSIVE ChunkLoop(_, _, _, _, _)
ChunkLoop(values, width, k, row, rws) ==
    IF k > Len(values)
    THEN IF row /= << >> THEN Append(rws, row) ELSE rws
    ELSE LET row1 == Append(row, values[k])
         IN  IF Len(row1) = width
             THEN ChunkLoop(values, width, k + 1, << >>, Append(rws, row1))
             ELSE ChunkLoop(values, width, k + 1, row1, rws)

RECURSIVE ChunkLoopDropRest(_, _, _, _, _)
ChunkLoopDropRest(values, width, k, row, rws) ==
    IF k > Len(values)
    THEN rws
    ELSE LET row1 == Append(row, values[k])
         IN  IF Len(row1) = width
             THEN ChunkLoopDropRest(values, width, k + 1, << >>, Append(rws, row1))
             ELSE ChunkLoopDropRest(values, width, k + 1, row1, rws)

chunked_drop_rest(values, width) == ChunkLoopDropRest(values, width, 1, << >>, << >>)

chunked(values, width) == ChunkLoop(values, width, 1, << >>, << >>)

(***************************************************************************)
(* Flattening over white, lines 167-172: one channel of                    *)
(*     int((c * alpha) + (255 * (1 - alpha))),  alpha = a / 255.0          *)
(* The exact value is FlattenNumerator(c, a) / 255 and int() truncates.    *)
(* When the exact value is an integer, the double evaluation lands just    *)
(* below it for the alphas of FlattenDeficit and channels up to the bound  *)
(* given there, and int() then yields one less.                            *)
(***************************************************************************)
FlattenNumerator(c, a) == (c * a) + (ChannelMax * (ChannelMax - a))

FlattenDeficit(a) ==
    CASE a \in {43, 59, 74, 75, 90, 91, 106, 107, 122, 123} -> 255
      [] a = 220 -> 102
      [] a = 204 -> 95
      [] a \in {228, 252} -> 85
      [] a = 180 -> 68
      [] a \in {165, 245} -> 51
      [] a = 221 -> 30
      [] a = 238 -> 15
      [] a \in {132, 133, 140, 141, 148, 149, 156, 157, 164, 172, 173, 181,
                188, 189, 196, 197, 198, 205, 206, 212, 213, 214, 222, 229,
                230, 236, 237, 244, 246, 253, 254} -> 0
      [] OTHER -> 0 - 1

flatten_channel(c, a) ==
    LET n == FlattenNumerator(c, a)
        q == n \div ChannelMax
    IN  IF n % ChannelMax = 0 /\ c <= FlattenDeficit(a) THEN q - 1 ELSE q

flattened_rgb(px) ==
    << flatten_channel(px[1], px[4]),
       flatten_channel(px[2], px[4]),
       flatten_channel(px[3], px[4]) >>

(***************************************************************************)
(* Rationals <<numerator, denominator>> for the HSV arithmetic.            *)
(***************************************************************************)
RECURSIVE GCD(_, _)
GCD(m, n) == IF n = 0 THEN m ELSE GCD(n, m % n)

Reduce(x) ==
    LET g == GCD(x[1], x[2])
    IN  IF g = 0 THEN x ELSE <<x[1] \div g, x[2] \div g>>

RatLess(x, y) == x[1] * y[2] < y[1] * x[2]

Max3(t) ==
    LET m == IF t[1] >= t[2] THEN t[1] ELSE t[2]
    IN  IF m >= t[3] THEN m ELSE t[3]

Min3(t) ==
    LET m == IF t[1] <= t[2] THEN t[1] ELSE t[2]
    IN  IF m <= t[3] THEN m ELSE t[3]

(* the s of colorsys.rgb_to_hsv(r / 255.0, g / 255.0, b / 255.0) *)
rgb_saturation(rgb) ==
    IF Max3(rgb) = Min3(rgb)
    THEN <<0, 1>>
    ELSE Reduce(<<Max3(rgb) - Min3(rgb), Max3(rgb)>>)

(* the pixels whose saturation is > 0.12, as their saturations *)
colorful_saturations(pixels) ==
    LET sats == [k \in 1..Len(pixels) |-> rgb_saturation(pixels[k])]
    IN  SelectSeq(sats, LAMBDA s : RatLess(<<12, 100>>, s))

(* sorted(xs)[k], k a Python index *)
SortedAt(xs, k) ==
    LET j == CHOOSE j \in 1..Len(xs) :
                 /\ Cardinality({m \in 1..Len(xs) : RatLess(xs[m], xs[j])}) <= k
                 /\ Cardinality({m \in 1..Len(xs) : ~RatLess(xs[j], xs[m])}) > k
    IN  xs[j]

(* max(0.25, min(0.85, sat)) *)
ClampSat(sat) ==
    LET lo == <<1, 4>>
        hi == <<17, 20>>
        m  == IF RatLess(hi, sat) THEN hi ELSE sat
    IN  IF RatLess(m, lo) THEN lo ELSE m

(* 0.22 + (0.72 * (i / max(1, buckets - 1))) *)
ToneLevel(i, buckets) ==
    LET d == IF buckets - 1 >= 1 THEN buckets - 1 ELSE 1
    IN  <<(11 * d) + (36 * i), 50 * d>>

(***************************************************************************)
(* colorsys.hsv_to_rgb on rationals: the three channels before int().      *)
(***************************************************************************)
hsv_to_rgb(h, s, v) ==
    IF s[1] = 0
    THEN <<v, v, v>>
    ELSE LET i  == (6 * h[1]) \div h[2]
             f  == Reduce(<<(6 * h[1]) % h[2], h[2]>>)
             p  == <<v[1] * (s[2] - s[1]), v[2] * s[2]>>
             q  == <<v[1] * ((s[2] * f[2]) - (s[1] * f[1])), v[2] * s[2] * f[2]>>
             t  == <<v[1] * ((s[2] * f[2]) - (s[1] * (f[2] - f[1]))),
                     v[2] * s[2] * f[2]>>
             i6 == i % 6
         IN  CASE i6 = 0 -> <<v, t, p>>
               [] i6 = 1 -> <<q, v, p>>
               [] i6 = 2 -> <<p, v, t>>
               [] i6 = 3 -> <<p, q, v>>
               [] i6 = 4 -> <<t, p, v>>
               [] OTHER  -> <<v, p, q>>

(* int(x * 255) of a channel x in [0, 1] *)
Int255(x) == (ChannelMax * x[1]) \div x[2]

(* The (buckets, i) up to 260 buckets at which v * 255 is an integer in    *)
(* exact arithmetic and the double product lands just below it.            *)
ToneDeficit ==
    { <<37, 29>>, <<69, 37>>, <<73, 58>>, <<109, 87>>, <<109, 97>>,
      <<109, 107>>, <<137, 74>>, <<145, 116>>, <<181, 145>>, <<205, 111>>,
      <<205, 191>>, <<217, 174>>, <<217, 194>>, <<217, 214>>, <<253, 203>> }

tone_entry(i, buckets, hue, sat) ==
    LET v   == ToneLevel(i, buckets)
        rgb == hsv_to_rgb(hue, sat, v)
        ch(x) == IF x = v /\ <<buckets, i>> \in ToneDeficit
                 THEN Int255(x) - 1
                 ELSE Int255(x)
    IN  [name |-> "tone" \o ToString(i),
         rgb  |-> <<ch(rgb[1]), ch(rgb[2]), ch(rgb[3])>>]

(***************************************************************************)
(* tonal_palette_from_pixels.  The circular mean hue of the colorful       *)
(* pixels (cos, sin, atan2) is not computed: mean_hue is the hue the       *)
(* caller supplies for it, any value of [0, 1).                            *)
(***************************************************************************)
tonal_palette_from_pixels(pixels, buckets, mean_hue) ==
    LET colorful == colorful_saturations(pixels)
        hue == IF colorful /= << >> THEN mean_hue ELSE <<0, 1>>
        sat == ClampSat(IF colorful /= << >>
                        THEN SortedAt(colorful, Len(colorful) \div 2)
                        ELSE <<0, 1>>)
        n   == IF buckets > 0 THEN buckets ELSE 0
    IN  [k \in 1..n |-> tone_entry(k - 1, buckets, hue, sat)]

(* Values the circular mean can take, one per sextant of the hue circle. *)
HueOutcomes == { <<0, 1>>, <<1, 4>>, <<1, 3>>, <<7, 12>>, <<2, 3>>, <<11, 12>> }

(***************************************************************************)
(* Helpers of main.                                                        *)
(***************************************************************************)
SeqsUpTo(S, n) == UNION { [1..k -> S] : k \in 0..n }

(* line 164: a < args.alpha_threshold *)
is_transparent_inclusive(a, threshold) == a <= threshold

is_transparent(a, threshold) == a < threshold

(* line 153: the (r, g, b) of the pixels with a >= alpha_threshold *)
solid_of(pixels, threshold) ==
    LET keep == SelectSeq(pixels, LAMBDA px : px[4] >= threshold)
    IN  [k \in 1..Len(keep) |-> <<keep[k][1], keep[k][2], keep[k][3]>>]

(* line 159: tonal_palette_from_pixels(solid_pixels or [(255, 255, 255)],  *)
(*                                     max(2, args.buckets))               *)
select_tonal_unclamped(solid, buckets, mean_hue) ==
    tonal_palette_from_pixels(
        IF solid /= << >> THEN solid ELSE << <<ChannelMax, ChannelMax, ChannelMax>> >>,
        buckets,
        mean_hue)

select_tonal(solid, buckets, mean_hue) ==
    tonal_palette_from_pixels(
        IF solid /= << >> THEN solid ELSE << <<ChannelMax, ChannelMax, ChannelMax>> >>,
        IF buckets > 2 THEN buckets ELSE 2,
        mean_hue)

(* sorted(S) of a finite set of integers *)
RECURSIVE SortedSeq(_)
SortedSeq(S) ==
    IF S = {}
    THEN << >>
    ELSE LET m == CHOOSE x \in S : \A y \in S : x <= y
         IN  <<m>> \o SortedSeq(S \ {m})

RECURSIVE InsertionOrder(_, _)
InsertionOrder(vals, seen) ==
    IF vals = << >>
    THEN << >>
    ELSE IF Head(vals) < 0 \/ Head(vals) \in seen
         THEN InsertionOrder(Tail(vals), seen)
         ELSE <<Head(vals)>> \o InsertionOrder(Tail(vals), seen \cup {Head(vals)})

(* line 176: sorted({value for value in mapped if value >= 0}) *)
used_indexes_unsorted(vals) == InsertionOrder(vals, {})

used_indexes(vals) ==
    SortedSeq({ vals[k] : k \in { j \in 1..Len(vals) : vals[j] >= 0 } })

(* ", ".join(items) *)
RECURSIVE Join(_)
Join(items) ==
    IF items = << >>
    THEN ""
    ELSE IF Len(items) = 1
         THEN items[1]
         ELSE items[1] \o ", " \o Join(Tail(items))

(* line 177: ", ".join(f"{i}:{palette[i][0]}" for i in used) *)
preview_of(usd, pal) ==
    Join([k \in 1..Len(usd) |-> ToString(usd[k]) \o ":" \o pal[usd[k] + 1].name])

(* lines 157 and 160 *)
mode_desc(a, pal) ==
    IF a.mode = "fixed"
    THEN ToString(a.palette_size) \o " fixed buckets"
    ELSE ToString(Len(pal)) \o " tonal buckets"

(***************************************************************************)
(* Inputs of a run.                                                        *)
(***************************************************************************)
PixelAlphabet ==
    { <<255, 0, 0, 255>>, <<0, 0, 255, 255>>, <<200, 100, 50, 128>>,
      <<128, 128, 128, 40>> }

AlphaThresholds == {0, 40, 129}

PaletteSizes == {16, 17, 32}

BucketChoices == {0, 6}

ArgSpace ==
    { a \in [width : 0..MaxPixels, height : 0..MaxPixels,
             mode : {"tonal", "fixed"}, palette_size : PaletteSizes,
             buckets : BucketChoices, alpha_threshold : AlphaThresholds] :
        a.width * a.height <= MaxPixels }

(* What the image collaborator (Pillow open/convert/resize/getdata) hands  *)
(* back: width * height pixels for a positive size.  For a size that is    *)
(* not positive the script checks nothing itself; the collaborator either  *)
(* fails (LoadImageFails) or returns some buffer, here of at most          *)
(* MaxUnsizedPixels pixels.                                                *)
PixelBuffers(a) ==
    IF a.width > 0 /\ a.height > 0
    THEN [1..(a.width * a.height) -> PixelAlphabet]
    ELSE SeqsUpTo(PixelAlphabet, MaxUnsizedPixels)

(***************************************************************************)
(* main, one action per step.                                              *)
(***************************************************************************)
Init ==
    /\ pc = "parse_args"
    /\ args \in ArgSpace
    /\ pixels_rgba = << >>
    /\ solid_pixels = << >>
    /\ palette = << >>
    /\ mapped = << >>
    /\ rows = << >>
    /\ used = << >>
    /\ palette_preview = ""
    /\ output = NoValue
    /\ error = NoValue
    /\ call = NoValue
    /\ result = NoValue

(* line 132: argparse rejects a --palette-size outside choices=[16, 32] *)
ParseArgsRejected ==
    /\ pc = "parse_args"
    /\ args.palette_size \notin {16, 32}
    /\ pc' = "exit"
    /\ error' = "argparse: invalid choice for --palette-size"
    /\ UNCHANGED <<args, pixels_rgba, solid_pixels, palette, mapped, rows, used,
                   palette_preview, output, call, result>>

ParseArgsAccepted ==
    /\ pc = "parse_args"
    /\ args.palette_size \in {16, 32}
    /\ pc' = "load"
    /\ UNCHANGED <<args, pixels_rgba, solid_pixels, palette, mapped, rows, used,
                   palette_preview, output, error, call, result>>

(* lines 150-153 *)
LoadImage ==
    /\ pc = "load"
    /\ \E buf \in PixelBuffers(args) :
          /\ pixels_rgba' = buf
          /\ solid_pixels' = solid_of(buf, args.alpha_threshold)
    /\ pc' = "select_palette"
    /\ UNCHANGED <<args, palette, mapped, rows, used, palette_preview, output,
                   error, call, result>>

(* line 151: the collaborator refuses a size that is not positive *)
LoadImageFails ==
    /\ pc = "load"
    /\ (args.width <= 0 \/ args.height <= 0)
    /\ pc' = "exit"
    /\ error' = "Pillow: resize failed"
    /\ UNCHANGED <<args, pixels_rgba, solid_pixels, palette, mapped, rows, used,
                   palette_preview, output, call, result>>

(* lines 155-157 *)
SelectPaletteFixed ==
    /\ pc = "select_palette"
    /\ args.mode = "fixed"
    /\ LET r == palette_for_size(args.palette_size)
       IN  IF r.ok
           THEN /\ palette' = r.value
                /\ pc' = "map"
                /\ error' = error
           ELSE /\ palette' = palette
                /\ pc' = "exit"
                /\ error' = r.error
    /\ UNCHANGED <<args, pixels_rgba, solid_pixels, mapped, rows, used,
                   palette_preview, output, call, result>>

(* lines 158-160 *)
SelectPaletteTonal ==
    /\ pc = "select_palette"
    /\ args.mode /= "fixed"
    /\ \E mean_hue \in HueOutcomes :
          palette' = select_tonal(solid_pixels, args.buckets, mean_hue)
    /\ pc' = "map"
    /\ UNCHANGED <<args, pixels_rgba, solid_pixels, mapped, rows, used,
                   palette_preview, output, error, call, result>>

(* lines 163-166: the next pixel is below the threshold *)
MapTransparent ==
    /\ pc = "map"
    /\ Len(mapped) < Len(pixels_rgba)
    /\ is_transparent(pixels_rgba[Len(mapped) + 1][4], args.alpha_threshold)
    /\ mapped' = Append(mapped, Transparent)
    /\ UNCHANGED <<pc, args, pixels_rgba, solid_pixels, palette, rows, used,
                   palette_preview, output, error, call, result>>

(* lines 163-173: the next pixel is flattened and matched *)
MapOpaque ==
    /\ pc = "map"
    /\ Len(mapped) < Len(pixels_rgba)
    /\ ~is_transparent(pixels_rgba[Len(mapped) + 1][4], args.alpha_threshold)
    /\ mapped' = Append(mapped,
                        nearest_palette_index(
                            flattened_rgb(pixels_rgba[Len(mapped) + 1]), palette))
    /\ UNCHANGED <<pc, args, pixels_rgba, solid_pixels, palette, rows, used,
                   palette_preview, output, error, call, result>>

(* line 174 *)
BuildRows ==
    /\ pc = "map"
    /\ Len(mapped) = Len(pixels_rgba)
    /\ rows' = chunked(mapped, args.width)
    /\ pc' = "report"
    /\ UNCHANGED <<args, pixels_rgba, solid_pixels, palette, mapped, used,
                   palette_preview, output, error, call, result>>

(* lines 176-177 *)
ReportUsed ==
    /\ pc = "report"
    /\ used' = used_indexes(mapped)
    /\ palette_preview' = preview_of(used_indexes(mapped), palette)
    /\ pc' = "emit"
    /\ UNCHANGED <<args, pixels_rgba, solid_pixels, palette, mapped, rows,
                   output, error, call, result>>

(* lines 178-187: the snippet's data and the header comment *)
EmitOutput ==
    /\ pc = "emit"
    /\ output' = [header |-> "// Used palette indexes (" \o mode_desc(args, palette)
                             \o "): " \o palette_preview,
                  width  |-> args.width,
                  height |-> args.height,
                  colors |-> rows]
    /\ pc' = "done"
    /\ UNCHANGED <<args, pixels_rgba, solid_pixels, palette, mapped, rows, used,
                   palette_preview, error, call, result>>

Next ==
    \/ ParseArgsRejected
    \/ ParseArgsAccepted
    \/ LoadImage
    \/ LoadImageFails
    \/ SelectPaletteFixed
    \/ SelectPaletteTonal
    \/ MapTransparent
    \/ MapOpaque
    \/ BuildRows
    \/ ReportUsed
    \/ EmitOutput

Spec == Init /\ [][Next]_vars

(***************************************************************************)
(* Calls of the single functions, on inputs drawn from bounded sets.       *)
(***************************************************************************)
Idle ==
    /\ args = NoValue
    /\ pixels_rgba = << >>
    /\ solid_pixels = << >>
    /\ palette = << >>
    /\ mapped = << >>
    /\ rows = << >>
    /\ used = << >>
    /\ palette_preview = ""
    /\ output = NoValue
    /\ error = NoValue

(* palette_for_size(size) *)
InitPalette ==
    /\ Idle
    /\ pc = "call"
    /\ call \in [fn : {"palette_for_size"}, size : 0..MaxSize]
    /\ result = NoValue

CallPaletteForSize ==
    /\ pc = "call"
    /\ call.fn = "palette_for_size"
    /\ result' = palette_for_size(call.size)
    /\ pc' = "return"
    /\ UNCHANGED <<mainVars, call>>

SpecPalette == InitPalette /\ [][CallPaletteForSize]_vars

(* nearest_palette_index(rgb, palette) *)
MatcherColors == { <<0, 0, 0>>, <<10, 0, 0>>, <<5, 0, 0>>, <<0, 5, 5>> }

MatcherEntries == { [name |-> "c", rgb |-> c] : c \in MatcherColors }

InitMatcher ==
    /\ Idle
    /\ pc = "call"
    /\ call \in [fn : {"nearest_palette_index"}, rgb : MatcherColors,
                 palette : SeqsUpTo(MatcherEntries, MaxPaletteLen)]
    /\ result = NoValue

CallNearestPaletteIndex ==
    /\ pc = "call"
    /\ call.fn = "nearest_palette_index"
    /\ result' = nearest_palette_index(call.rgb, call.palette)
    /\ pc' = "return"
    /\ UNCHANGED <<mainVars, call>>

SpecMatcher == InitMatcher /\ [][CallNearestPaletteIndex]_vars

(* chunked(values, width) *)
InitChunked ==
    /\ Idle
    /\ pc = "call"
    /\ call \in [fn : {"chunked"}, values : SeqsUpTo({Transparent, 0, 1}, MaxValues),
                 width : 0..MaxChunkWidth]
    /\ result = NoValue

CallChunked ==
    /\ pc = "call"
    /\ call.fn = "chunked"
    /\ result' = chunked(call.values, call.width)
    /\ pc' = "return"
    /\ UNCHANGED <<mainVars, call>>

SpecChunked == InitChunked /\ [][CallChunked]_vars

(* lines 164-172 on one pixel (c, 255 - c, 0, a) *)
InitFlatten ==
    /\ Idle
    /\ pc = "call"
    /\ \E c \in 0..ChannelMax, a \in 0..ChannelMax, t \in {0, 40} :
          call = [fn |-> "flatten", pixel |-> <<c, ChannelMax - c, 0, a>>,
                  alpha_threshold |-> t]
    /\ result = NoValue

CallFlatten ==
    /\ pc = "call"
    /\ call.fn = "flatten"
    /\ result' = IF is_transparent(call.pixel[4], call.alpha_threshold)
                 THEN <<Transparent>>
                 ELSE flattened_rgb(call.pixel)
    /\ pc' = "return"
    /\ UNCHANGED <<mainVars, call>>

SpecFlatten == InitFlatten /\ [][CallFlatten]_vars

(* line 159 on the opaque pixels of an image and a --buckets value *)
TonalPixels == { <<128, 128, 128>>, <<200, 100, 50>>, <<250, 200, 150>> }

MinBuckets == 0 - 1

InitTonal ==
    /\ Idle
    /\ pc = "call"
    /\ call \in [fn : {"select_tonal"}, solid_pixels : SeqsUpTo(TonalPixels, 1),
                 buckets : MinBuckets..MaxBuckets]
    /\ result = NoValue

CallSelectTonal ==
    /\ pc = "call"
    /\ call.fn = "select_tonal"
    /\ \E mean_hue \in HueOutcomes :
          result' = select_tonal(call.solid_pixels, call.buckets, mean_hue)
    /\ pc' = "return"
    /\ UNCHANGED <<mainVars, call>>

SpecTonal == InitTonal /\ [][CallSelectTonal]_vars

(***************************************************************************)
(* Properties.                                                             *)
(***************************************************************************)
IsIndexOrSentinel(v, pal) == v = 0 - 1 \/ (0 <= v /\ v < Len(pal))

(* C1: every value the conversion loop emits, in the flat sequence and in  *)
(* the grid built from it, is -1 or an index v with 0 <= v < len(palette). *)
C1_IndexBounds ==
    /\ \A k \in 1..Len(mapped) : IsIndexOrSentinel(mapped[k], palette)
    /\ \A r \in 1..Len(rows) :
          \A c \in 1..Len(rows[r]) : IsIndexOrSentinel(rows[r][c], palette)

C1_Witness ==
    /\ pc = "done"
    /\ args.mode = "tonal"
    /\ Len(palette) = 6
    /\ \E j, k \in 1..Len(mapped) : mapped[j] = 0 - 1 /\ mapped[k] = 5
    /\ \E r \in 1..Len(rows) : \E c \in 1..Len(rows[r]) : rows[r][c] = 5

(* C2: the k-th element of the flat sequence is exactly -1 when pixel k    *)
(* has a < alpha_threshold and is >= 0 when a >= alpha_threshold; the loop *)
(* emits one element per pixel, in input order.                            *)
C2_TransparencyConsistency ==
    /\ Len(mapped) <= Len(pixels_rgba)
    /\ pc \in {"report", "emit", "done"} => Len(mapped) = Len(pixels_rgba)
    /\ \A k \in 1..Len(mapped) :
          IF pixels_rgba[k][4] < args.alpha_threshold
          THEN mapped[k] = 0 - 1
          ELSE mapped[k] >= 0

C2_Witness ==
    /\ pc = "done"
    /\ args.alpha_threshold = 129
    /\ \E j, k \in 1..Len(pixels_rgba) :
          /\ pixels_rgba[j][4] = 128
          /\ mapped[j] = 0 - 1
          /\ pixels_rgba[k][4] = 255
          /\ mapped[k] >= 0

(* the catalog index (from 0) of the entry called n *)
CatalogIndex(n) ==
    (CHOOSE k \in 1..Len(GAME_PALETTE_32) : GAME_PALETTE_32[k].name = n) - 1

(* i is an index of pal at minimal squared distance from rgb *)
IsClosest(i, rgb, pal) ==
    /\ 0 <= i
    /\ i < Len(pal)
    /\ \A j \in 1..Len(pal) :
          SquaredDistance(rgb, pal[i + 1].rgb) <= SquaredDistance(rgb, pal[j].rgb)

C4_Scenario ==
    /\ pc = "done"
    /\ args.width = 2
    /\ args.height = 1
    /\ args.mode = "fixed"
    /\ args.palette_size = 32
    /\ args.alpha_threshold = 40
    /\ pixels_rgba = << <<255, 0, 0, 255>>, <<0, 0, 255, 255>> >>

(* C4 as stated: the 2x1 image (255,0,0,255), (0,0,255,255), fixed 32      *)
(* palette, threshold 40, gives one row whose first value is the index of  *)
(* "red" and whose second is the index nearest to (0,0,255).               *)
C4_AsStated ==
    C4_Scenario =>
        /\ Len(output.colors) = 1
        /\ Len(output.colors[1]) = 2
        /\ output.colors[1][1] = CatalogIndex("red")
        /\ IsClosest(output.colors[1][2], <<0, 0, 255>>, GAME_PALETTE_32)

(* C4 amended: in that scenario the grid is one row of two values, the     *)
(* first the index of the entry nearest to (255,0,0), which is             *)
(* "deeporange" (19) and not "red" (0), the second the index of the entry  *)
(* nearest to (0,0,255), which is "indigo" (9).                            *)
C4_EndToEnd ==
    C4_Scenario =>
        /\ Len(output.colors) = 1
        /\ Len(output.colors[1]) = 2
        /\ output.colors[1][1] = CatalogIndex("deeporange")
        /\ output.colors[1][1] /= CatalogIndex("red")
        /\ IsClosest(output.colors[1][1], <<255, 0, 0>>, GAME_PALETTE_32)
        /\ output.colors[1][2] = CatalogIndex("indigo")
        /\ IsClosest(output.colors[1][2], <<0, 0, 255>>, GAME_PALETTE_32)

C4_Witness == C4_Scenario /\ output.colors = << <<19, 9>> >>

(* C6 as stated: a request with width <= 0 or height <= 0, with a pixel    *)
(* count other than width * height, or (fixed mode) with a palette size    *)
(* other than 16 or 32 maps no pixel and produces no grid, used-index      *)
(* report or output, and a run that has ended has ended in an error.       *)
C6_BadRequest ==
    \/ args.width <= 0
    \/ args.height <= 0
    \/ /\ pc \in {"select_palette", "map", "report", "emit", "done"}
       /\ Len(pixels_rgba) /= args.width * args.height
    \/ (args.mode = "fixed" /\ args.palette_size \notin {16, 32})

C9_ReportState ==
    pc \in {"emit", "done"} =>
        /\ \A k \in 1..(Len(used) - 1) : used[k] < used[k + 1]
        /\ { used[k] : k \in 1..Len(used) }
             = { mapped[k] : k \in { j \in 1..Len(mapped) : mapped[j] >= 0 } }
        /\ \A k \in 1..Len(used) : used[k] /= 0 - 1
        /\ palette_preview
             = Join([k \in 1..Len(used) |->
                       ToString(used[k]) \o ":" \o palette[used[k] + 1].name])

C9_UsedReport ==
    /\ []C9_ReportState
    /\ [][pc = "report" => (mapped' = mapped /\ palette' = palette)]_vars

C9_Witness ==
    /\ pc = "done"
    /\ mapped = <<19, 0 - 1, 9>>
    /\ used = <<9, 19>>
    /\ palette_preview = "9:indigo, 19:deeporange"

(* C3: for a non-empty palette nearest_palette_index returns an index of  *)
(* minimal squared distance, and the lowest one when several entries are   *)
(* at that distance.                                                       *)
C3_NearestLowestIndex ==
    (pc = "return" /\ call.fn = "nearest_palette_index" /\ call.palette /= << >>) =>
        /\ IsClosest(result, call.rgb, call.palette)
        /\ \A i \in 0..(Len(call.palette) - 1) :
              IsClosest(i, call.rgb, call.palette) => result <= i

C3_Witness ==
    /\ pc = "return"
    /\ call.fn = "nearest_palette_index"
    /\ call.rgb = <<5, 0, 0>>
    /\ Len(call.palette) = 3
    /\ call.palette[1].rgb = <<0, 5, 5>>
    /\ call.palette[2].rgb = <<0, 0, 0>>
    /\ call.palette[3].rgb = <<10, 0, 0>>
    /\ result = 1

(* round(c*a/255 + 255*(1 - a/255)): the nearest integer of the exact      *)
(* blend (255 being odd, no blend lies halfway between two integers).      *)
RoundedBlend(c, a) == ((2 * ((c * a) + (255 * (255 - a)))) + 255) \div (2 * 255)

(* C5 as stated: a pixel with a >= alpha_threshold is flattened, channel   *)
(* by channel, to round(c*a/255 + 255*(1 - a/255)), a value of 0..255.     *)
C5_RoundedBlend ==
    (/\ pc = "return"
     /\ call.fn = "flatten"
     /\ call.pixel[4] >= call.alpha_threshold) =>
        \A n \in 1..3 :
            /\ result[n] = RoundedBlend(call.pixel[n], call.pixel[4])
            /\ 0 <= result[n]
            /\ result[n] <= 255

(* C7: palette_for_size(N) returns exactly the first N catalog entries in  *)
(* catalog order for N = 16 and N = 32, and raises the ValueError, with no *)
(* palette returned, for every other N.                                    *)
C7_PaletteForSize ==
    (pc = "return" /\ call.fn = "palette_for_size") =>
        IF call.size \in {16, 32}
        THEN /\ result.ok
             /\ Len(result.value) = call.size
             /\ \A k \in 1..call.size : result.value[k] = GAME_PALETTE_32[k]
        ELSE /\ ~result.ok
             /\ DOMAIN result = {"ok", "error"}

C7_Witness ==
    /\ pc = "return"
    /\ call.fn = "palette_for_size"
    /\ call.size = 17
    /\ ~result.ok

RECURSIVE Concat(_)
Concat(rws) == IF rws = << >> THEN << >> ELSE Head(rws) \o Concat(Tail(rws))

CeilDiv(n, w) == (n + w - 1) \div w

(* C8: for width >= 1 chunked returns ceil(n / width) rows whose           *)
(* concatenation is the input; every row but the last has exactly width    *)
(* elements and the last has between 1 and width.                          *)
C8_RowChunking ==
    (pc = "return" /\ call.fn = "chunked" /\ call.width >= 1) =>
        /\ Len(result) = CeilDiv(Len(call.values), call.width)
        /\ Concat(result) = call.values
        /\ \A r \in 1..(Len(result) - 1) : Len(result[r]) = call.width
        /\ \A r \in 1..Len(result) :
              Len(result[r]) >= 1 /\ Len(result[r]) <= call.width

C8_Witness ==
    /\ pc = "return"
    /\ call.fn = "chunked"
    /\ call.width = 3
    /\ Len(call.values) = 4
    /\ Len(result) = 2
    /\ Len(result[2]) = 1

Brightness(entry) == Max3(entry.rgb)

ClampedBuckets(n) == IF n > 2 THEN n ELSE 2

TonalShape ==
    /\ Len(result) = ClampedBuckets(call.buckets)
    /\ \A k \in 1..Len(result) : result[k].name = "tone" \o ToString(k - 1)

(* C10 as stated: the tonal palette has b = max(2, buckets) entries named  *)
(* tone0..tone{b-1} in order, of strictly increasing brightness.           *)
C10_AsStated ==
    (pc = "return" /\ call.fn = "select_tonal") =>
        /\ TonalShape
        /\ \A k \in 1..(Len(result) - 1) :
              Brightness(result[k]) < Brightness(result[k + 1])

(* C10 amended: b = max(2, buckets) entries named tone0..tone{b-1} in      *)
(* order, of brightness that never decreases and that strictly increases   *)
(* whenever b <= 184 (so for buckets = 6, also for an image with no opaque *)
(* pixel); from 185 buckets on, two neighbouring entries share one.        *)
C10_TonalPalette ==
    (pc = "return" /\ call.fn = "select_tonal") =>
        /\ TonalShape
        /\ \A k \in 1..(Len(result) - 1) :
              Brightness(result[k]) <= Brightness(result[k + 1])
        /\ Len(result) <= 184 =>
              \A k \in 1..(Len(result) - 1) :
                  Brightness(result[k]) < Brightness(result[k + 1])
        /\ Len(result) >= 185 =>
              \E k \in 1..(Len(result) - 1) :
                  Brightness(result[k]) = Brightness(result[k + 1])

C10_Witness ==
    /\ pc = "return"
    /\ call.fn = "select_tonal"
    /\ call.buckets = 6
    /\ call.solid_pixels = << >>
    /\ Len(result) = 6
    /\ result[1].name = "tone0"
    /\ result[6].name = "tone5"
    /\ Brightness(result[1]) = 56
    /\ Brightness(result[6]) = 239

====
